---- MODULE Spec2Model ----
(***************************************************************************)
(* A model of the notebook Summarize-Scientific-Documents.ipynb: the       *)
(* cells of the notebook are the actions, the kernel's names, the local    *)
(* data directory, the project bucket and the two managed services (the    *)
(* topic-detection job, the asynchronous inference endpoint) are the       *)
(* state.                                                                  *)
(*                                                                         *)
(* Representation.                                                         *)
(*   - An object key or a text is a sequence of tokens; a string prefix is *)
(*     a prefix of the token sequence.  "/" is a token of its own.         *)
(*   - An article file name is the one-token sequence <<ToString(i)>>, the *)
(*     i-th name in the order of names.                                    *)
(*   - A text is a sequence of tokens "Background", "background", " ",     *)
(*     "\n", "\t" and [run |-> n], n ordinary characters holding no        *)
(*     pattern.                                                            *)
(*   - Weights and proportions are tenths (9 is 0.9).                      *)
(***************************************************************************)
EXTENDS Integers, Sequences, FiniteSets, TLC

\* ------------------------------------------------------------------ bounds
MaxListing == 26
MaxSamplerReruns == 1
MaxTermRows == 2
MaxDocRows == 2

\* ------------------------------------------------------- program constants
SampleCount == 25
max_attempts == 24
delay == 15
MaxCapture == 1000

NaN == <<"NaN">>

\* ------------------------------------------------------------ keys, paths
s3_prefix == <<"sci-docs", "/", "data">>
pmc_prefix == <<"oa_comm", "/", "txt", "/", "all", "/">>
delete_prefix == <<"sci-docs">>

StartsWith(key, prefix) ==
  /\ Len(prefix) <= Len(key)
  /\ SubSeq(key, 1, Len(prefix)) = prefix

\* os.path.basename: what follows the last "/"
RECURSIVE LastSlash(_, _)
LastSlash(key, i) ==
  IF i = 0 THEN 0
  ELSE IF key[i] = "/" THEN i
  ELSE LastSlash(key, i - 1)

basename(key) == SubSeq(key, LastSlash(key, Len(key)) + 1, Len(key))

\* sagemaker.s3.s3_path_join: the parts joined by "/"
RECURSIVE s3_path_join(_)
s3_path_join(parts) ==
  IF Len(parts) = 0 THEN <<>>
  ELSE IF Len(parts) = 1 THEN parts[1]
  ELSE parts[1] \o <<"/">> \o s3_path_join(Tail(parts))

RawPrefix == s3_path_join(<<s3_prefix, <<"raw">>>>)
OutputPrefix == s3_path_join(<<s3_prefix, <<"output">>>>)
TldrPrefix == s3_path_join(<<s3_prefix, <<"tldr_output">>>>)

\* ------------------------------------------------------------ result joiner
Topics == {1, 2}
Weights == {5, 9}
Proportions == {2, 8}
Terms == {"gene", "cell"}
File(i) == <<ToString(i)>>
Num(name) == CHOOSE i \in 1..(MaxListing + 1) : File(i) = name
DocNames == {File(1), File(2)}
Sep == ", "

TermRows == [topic : Topics, weight : Weights, term : Terms]
DocRows == [docname : DocNames, topic : Topics, proportion : Proportions]
TermTables == UNION {[1..n -> TermRows] : n \in 0..MaxTermRows}
DocTables == UNION {[1..n -> DocRows] : n \in 0..MaxDocRows}

\* the weights sorted the wrong way round
TermLessAscending(a, b) ==
  \/ a.topic < b.topic
  \/ a.topic = b.topic /\ a.weight < b.weight

TermLess(a, b) ==
  \/ a.topic < b.topic
  \/ a.topic = b.topic /\ a.weight > b.weight

DocLess(a, b) ==
  \/ Num(a.docname) < Num(b.docname)
  \/ a.docname = b.docname /\ a.proportion > b.proportion

\* the order of sort_values(by, ascending): by is "term" for
\* (["topic", "weight"], [True, False]), "doc" for (["docname", "proportion"], [True, False])
Less(by, a, b) == IF by = "term" THEN TermLess(a, b) ELSE DocLess(a, b)

RECURSIVE Insert(_, _, _)
Insert(row, sorted, by) ==
  IF sorted = <<>> THEN <<row>>
  ELSE IF Less(by, row, Head(sorted)) THEN <<row>> \o sorted
  ELSE <<Head(sorted)>> \o Insert(row, Tail(sorted), by)

\* DataFrame.sort_values on several columns: a stable sort
RECURSIVE sort_values(_, _)
sort_values(tbl, by) ==
  IF tbl = <<>> THEN <<>>
  ELSE Insert(tbl[Len(tbl)], sort_values(SubSeq(tbl, 1, Len(tbl) - 1), by), by)

\* ", ".join(x)
RECURSIVE join(_, _)
join(sep, xs) ==
  IF xs = <<>> THEN <<>>
  ELSE IF Len(xs) = 1 THEN <<xs[1]>>
  ELSE <<xs[1], sep>> \o join(sep, Tail(xs))

RECURSIVE SelectTerms(_, _)
SelectTerms(tbl, t) ==
  IF tbl = <<>> THEN <<>>
  ELSE IF Head(tbl).topic = t THEN <<Head(tbl).term>> \o SelectTerms(Tail(tbl), t)
  ELSE SelectTerms(Tail(tbl), t)

\* the group keys of groupby(["topic"]), ascending
RECURSIVE GroupKeys(_)
GroupKeys(keys) ==
  IF keys = {} THEN <<>>
  ELSE LET k == CHOOSE x \in keys : \A y \in keys : x <= y
       IN <<k>> \o GroupKeys(keys \ {k})

\* .groupby(["topic"])["term"].agg(lambda x: ", ".join(x))
groupby_agg(tbl) ==
  LET keys == GroupKeys({tbl[i].topic : i \in DOMAIN tbl})
  IN [g \in DOMAIN keys |->
        [topic |-> keys[g], term |-> join(Sep, SelectTerms(tbl, keys[g]))]]

ReadTopics(csv) == groupby_agg(sort_values(csv, "term"))

ReadDocs(csv) == sort_values(csv, "doc")

RECURSIVE Matches(_, _)
Matches(right, t) ==
  IF right = <<>> THEN <<>>
  ELSE IF Head(right).topic = t THEN <<Head(right)>> \o Matches(Tail(right), t)
  ELSE Matches(Tail(right), t)

JoinedRow(d, term) ==
  [docname |-> d.docname, topic |-> d.topic, proportion |-> d.proportion, term |-> term]

\* an inner join: left rows without a match are dropped
RECURSIVE merge_inner(_, _)
merge_inner(left, right) ==
  IF left = <<>> THEN <<>>
  ELSE LET d == Head(left)
           m == Matches(right, d.topic)
       IN [i \in DOMAIN m |-> JoinedRow(d, m[i].term)] \o merge_inner(Tail(left), right)

\* pd.merge(docs, topics, how="left", on="topic")
RECURSIVE merge_left(_, _)
merge_left(left, right) ==
  IF left = <<>> THEN <<>>
  ELSE LET d == Head(left)
           m == Matches(right, d.topic)
           rows == IF m = <<>> THEN <<JoinedRow(d, NaN)>>
                   ELSE [i \in DOMAIN m |-> JoinedRow(d, m[i].term)]
       IN rows \o merge_left(Tail(left), right)

\* --------------------------------------------------------------- documents
Tok(c, k) == [ch |-> c, n |-> k]

Profiles == {"none", "first", "some", "all"}

Plain == <<Tok("x", 50)>>
Lower == <<Tok("background", 10), Tok(" ", 1), Tok("x", 10)>>
NoSpace == <<Tok("x", 3), Tok("Background", 10), Tok("x", 20)>>
NewLine == <<Tok("x", 5), Tok("Background", 10), Tok("\n", 1), Tok("x", 30), Tok("\n", 1), Tok("x", 7)>>
Long == <<Tok("Background", 10), Tok(" ", 1), Tok("x", 1200), Tok("\t", 1), Tok("x", 4)>>
Exact == <<Tok("Background", 10), Tok("x", 2), Tok("Background", 10), Tok(" ", 1), Tok("x", 1000)>>

NoMatchText(i) == IF i % 3 = 0 THEN Plain ELSE IF i % 3 = 1 THEN Lower ELSE NoSpace
MatchText(i) == IF i % 3 = 0 THEN NewLine ELSE IF i % 3 = 1 THEN Long ELSE Exact

\* the text of article PMC<i>.txt of the source dataset under a profile
DocText(p, name) ==
  LET i == Num(name)
  IN IF p = "all" THEN MatchText(i)
     ELSE IF p = "first" /\ i = 1 THEN MatchText(i)
     ELSE IF p = "some" /\ i % 2 = 0 THEN MatchText(i)
     ELSE NoMatchText(i)

\* str.replace(old, new)
replace(text, old, new) ==
  [i \in DOMAIN text |-> IF text[i].ch = old THEN Tok(new, text[i].n) ELSE text[i]]

\* f.read().replace("\n", " ").replace("\t", " ")
Flatten(text) == replace(replace(text, "\n", " "), "\t", " ")

RECURSIVE TextLen(_)
TextLen(text) == IF text = <<>> THEN 0 ELSE Head(text).n + TextLen(Tail(text))

\* (.{,k}): greedy, at most k characters, none of them a newline
RECURSIVE Take(_, _)
Take(text, k) ==
  IF text = <<>> \/ k = 0 THEN <<>>
  ELSE IF Head(text).ch = "\n" THEN <<>>
  ELSE IF Head(text).n <= k THEN <<Head(text)>> \o Take(Tail(text), k - Head(text).n)
  ELSE <<Tok(Head(text).ch, k)>>

RECURSIVE FirstMatch(_, _)
FirstMatch(text, i) ==
  IF i >= Len(text) THEN 0
  ELSE IF text[i].ch = "Background" /\ text[i + 1].ch = " " THEN i
  ELSE FirstMatch(text, i + 1)

NoResult == [kind |-> "None", group |-> <<>>]

\* re.search("Background (.{,1000})", text)
re_search(text) ==
  LET i == FirstMatch(text, 1)
  IN IF i = 0 THEN NoResult
     ELSE [kind |-> "match", group |-> Take(SubSeq(text, i + 2, Len(text)), MaxCapture)]

\* ------------------------------------------------------------------ sampling
RECURSIVE SubsetsOfSize(_, _)
SubsetsOfSize(S, k) ==
  IF k = 0 THEN {{}}
  ELSE IF k > Cardinality(S) THEN {}
  ELSE LET x == CHOOSE y \in S : TRUE
       IN {T \cup {x} : T \in SubsetsOfSize(S \ {x}, k - 1)} \cup SubsetsOfSize(S \ {x}, k)

RECURSIVE Pick(_, _, _)
Pick(population, idx, i) ==
  IF i > Len(population) THEN <<>>
  ELSE IF i \in idx THEN <<population[i]>> \o Pick(population, idx, i + 1)
  ELSE Pick(population, idx, i + 1)

\* a sample that shrinks to the population instead of failing
random_sample_clamped(population, k) ==
  LET m == IF k > Len(population) THEN Len(population) ELSE k
  IN {Pick(population, idx, 1) : idx \in SubsetsOfSize(DOMAIN population, m)}

\* random.sample(population, k): the lists it can return, each k distinct positions
\* of the population (listed here in the population's order); none when k exceeds
\* the population (ValueError)
random_sample(population, k) ==
  {Pick(population, idx, 1) : idx \in SubsetsOfSize(DOMAIN population, k)}

\* --------------------------------------------------------------------- state
VARIABLES
  listing,          \* the source bucket's keys under pmc_prefix ("Contents")
  profile,          \* which texts the source articles hold
  bucket,           \* the keys of the project bucket (s3_bucket)
  jobStatus,        \* the topic-detection job, as the service holds it
  jobCorpus,        \* the documents under the input prefix when the job was started
  archive,          \* the tables of the job's output.tar.gz
  endpoint,         \* "none", "InService" or "deleted"
  pending,          \* an asynchronous invocation is being served
  localRaw,         \* the files of data/raw/
  localData,        \* the files of data/ itself
  pc,               \* the cell (or the statement of it) to run next
  err,              \* the error that halted the last cell run
  sample,           \* what the name `sample` is bound to
  article_names,
  art,
  JobStatus,        \* describe_topics_detection_job_result["JobStatus"]
  topic_terms_csv,  \* data/topic-terms.csv
  doc_topics_csv,   \* data/doc-topics.csv
  topics,
  docs,
  results,
  docname,
  predictor,        \* "unbound" or "bound"
  result,
  dict,
  attempts,         \* the attempts of the wait so far
  clock,            \* time slept in the wait so far
  describeCalls,    \* history: describe_topics_detection_job calls
  requests,         \* history: predict_async calls
  samplerRuns       \* history: runs of the sampler cell

world == <<listing, profile, bucket, jobStatus, jobCorpus, archive, endpoint, pending>>
files == <<localRaw, localData>>
tables == <<topic_terms_csv, doc_topics_csv, topics, docs, results>>
kernel == <<sample, article_names, art, JobStatus, docname, predictor, result, dict>>
waitState == <<attempts, clock>>
history == <<describeCalls, requests, samplerRuns>>
vars == <<world, files, tables, kernel, waitState, history, pc, err>>

NoError == "none"
NoArchive == [terms |-> <<>>, docs |-> <<>>]
NoDict == [bound |-> FALSE, inputs |-> <<>>]

SourceKey(i) == pmc_prefix \o File(i)
RawKey(name) == s3_path_join(<<RawPrefix, name>>)
ArchiveKey == s3_path_join(<<OutputPrefix, <<"job">>, <<"output">>, <<"output.tar.gz">>>>)
TldrKey == s3_path_join(<<TldrPrefix, <<"request.out">>>>)
AsyncInputKey == <<"async-endpoint-inputs", "/", "request.in">>

\* objects of the bucket that the workflow never writes
Foreign ==
  { <<"sci-docs", "/", "models", "/", "m.bin">>,
    <<"sci-docs", "-archive", "/", "old.txt">>,
    <<"other", "/", "x.txt">> }

UnderPrefix(key, prefix) == StartsWith(key, prefix \o <<"/">>)

StagedNames == {basename(k) : k \in {x \in bucket : UnderPrefix(x, RawPrefix)}}

InitWorld(sizes, profiles) ==
  /\ \E n \in sizes : listing = [i \in 1..n |-> SourceKey(i)]
  /\ profile \in profiles
  /\ bucket = Foreign
  /\ jobStatus = "NONE"
  /\ jobCorpus = {}
  /\ archive = NoArchive
  /\ endpoint = "none"
  /\ pending = FALSE

InitKernel ==
  /\ localRaw = {}
  /\ localData = {}
  /\ pc = "imports"
  /\ err = NoError
  /\ sample = "unbound"
  /\ article_names = <<>>
  /\ art = <<>>
  /\ JobStatus = "unbound"
  /\ topics = <<>>
  /\ docs = <<>>
  /\ results = <<>>
  /\ docname = <<>>
  /\ predictor = "unbound"
  /\ result = NoResult
  /\ dict = NoDict
  /\ attempts = 0
  /\ clock = 0
  /\ describeCalls = 0
  /\ requests = 0
  /\ samplerRuns = 0

NoCsv ==
  /\ topic_terms_csv = <<>>
  /\ doc_topics_csv = <<>>

\* a run of the notebook: the listing holds one item fewer than the sample, or as many
Init == InitWorld({SampleCount - 1, SampleCount}, Profiles) /\ InitKernel /\ NoCsv

\* ----------------------------------------------------------------- the cells
Halt(e) == err' = e /\ pc' = "halted"

\* cell 02f953c1: from random import sample
Imports ==
  /\ pc = "imports"
  /\ sample' = "random.sample"
  /\ pc' = "sampler"
  /\ UNCHANGED <<world, files, tables, waitState, history, err>>
  /\ UNCHANGED <<article_names, art, JobStatus, docname, predictor, result, dict>>

\* sm_session.download_data(local_raw_data_dir, bucket=pmc_bucket, key_prefix=pmc_prefix + article)
Downloaded(names) ==
  {basename(listing[i]) : i \in {j \in DOMAIN listing :
      \E a \in DOMAIN names : StartsWith(listing[j], pmc_prefix \o names[a])}}

\* sm_session.upload_data(local_raw_data_dir, bucket=s3_bucket, key_prefix=s3_prefix + "/raw")
Uploaded(dir) == {RawKey(f) : f \in dir}

\* cell e5ba4ce3; list_objects_v2 answers without "Contents" when no key matches
SamplerBody ==
  /\ samplerRuns' = samplerRuns + 1
  /\ UNCHANGED <<describeCalls, requests>>
  /\ UNCHANGED <<listing, profile, jobStatus, jobCorpus, archive, endpoint, pending>>
  /\ UNCHANGED <<tables, waitState, localData>>
  /\ UNCHANGED <<sample, art, JobStatus, docname, predictor, result, dict>>
  /\ IF Len(listing) = 0
       THEN /\ Halt("KeyError")
            /\ UNCHANGED <<article_names, localRaw, bucket>>
     ELSE IF random_sample(listing, SampleCount) = {}
       THEN /\ Halt("ValueError")
            /\ UNCHANGED <<article_names, localRaw, bucket>>
     ELSE \E drawn \in random_sample(listing, SampleCount) :
            /\ article_names' = [i \in DOMAIN drawn |-> basename(drawn[i])]
            /\ localRaw' = localRaw \cup Downloaded(article_names')
            /\ bucket' = bucket \cup Uploaded(localRaw')
            /\ err' = NoError
            /\ pc' = "look"

Sampler == pc = "sampler" /\ SamplerBody

\* the sampler cell run again
RerunSampler ==
  /\ pc = "look"
  /\ samplerRuns <= MaxSamplerReruns
  /\ SamplerBody

\* cell bf08584a: art = sample(article_names, 1)[0]
LookCell ==
  /\ pc = "look"
  /\ IF sample = "random.sample"
       THEN /\ \E drawn \in random_sample(article_names, 1) : art' = drawn[1]
            /\ pc' = "submit"
            /\ err' = NoError
       ELSE /\ Halt("TypeError")
            /\ UNCHANGED art
  /\ UNCHANGED <<world, files, tables, waitState, history>>
  /\ UNCHANGED <<sample, article_names, JobStatus, docname, predictor, result, dict>>

\* cell 2984d622: comprehend.start_topics_detection_job(...)
SubmitCell ==
  /\ pc = "submit"
  /\ jobStatus' = "SUBMITTED"
  /\ jobCorpus' = StagedNames
  /\ archive' = NoArchive
  /\ pc' = "status"
  /\ UNCHANGED <<listing, profile, bucket, endpoint, pending>>
  /\ UNCHANGED <<files, tables, kernel, waitState, history, err>>

\* the tables a finished job can hold for a staged corpus
JobOutputs(names) ==
  LET lo == CHOOSE x \in names : \A y \in names : Num(x) <= Num(y)
      hi == CHOOSE x \in names : \A y \in names : Num(x) >= Num(y)
  IN { [terms |-> << [topic |-> 1, weight |-> 5, term |-> "cell"],
                     [topic |-> 1, weight |-> 9, term |-> "gene"] >>,
        docs  |-> << [docname |-> lo, topic |-> 1, proportion |-> 8] >>],
       [terms |-> << [topic |-> 2, weight |-> 9, term |-> "gene"] >>,
        docs  |-> << [docname |-> hi, topic |-> 1, proportion |-> 2],
                     [docname |-> lo, topic |-> 2, proportion |-> 8] >>] }

\* the statements of the clean-up cell run back to back
Quiet == pc \notin {"teardown_s3", "teardown_rm"}

\* the service: submitted -> in progress
JobStart ==
  /\ Quiet
  /\ jobStatus = "SUBMITTED"
  /\ jobStatus' = "IN_PROGRESS"
  /\ UNCHANGED <<listing, profile, bucket, jobCorpus, archive, endpoint, pending>>
  /\ UNCHANGED <<files, tables, kernel, waitState, history, pc, err>>

\* the service: in progress -> completed, the archive written under the output prefix
JobComplete ==
  /\ Quiet
  /\ jobStatus = "IN_PROGRESS"
  /\ jobCorpus # {}
  /\ jobStatus' = "COMPLETED"
  /\ archive' \in JobOutputs(jobCorpus)
  /\ bucket' = bucket \cup {ArchiveKey}
  /\ UNCHANGED <<listing, profile, jobCorpus, endpoint, pending>>
  /\ UNCHANGED <<files, tables, kernel, waitState, history, pc, err>>

\* the service: in progress -> failed
JobFail ==
  /\ Quiet
  /\ jobStatus = "IN_PROGRESS"
  /\ jobStatus' = "FAILED"
  /\ UNCHANGED <<listing, profile, bucket, jobCorpus, archive, endpoint, pending>>
  /\ UNCHANGED <<files, tables, kernel, waitState, history, pc, err>>

\* lines 198-207: the two tables read, sorted, aggregated and joined
JoinTables ==
  /\ topics' = ReadTopics(topic_terms_csv')
  /\ docs' = ReadDocs(doc_topics_csv')
  /\ results' = merge_left(docs', topics')

\* cell fc63594d: one describe call; the archive and the join only when COMPLETED
StatusCell ==
  /\ pc = "status"
  /\ JobStatus' = jobStatus
  /\ describeCalls' = describeCalls + 1
  /\ IF JobStatus' = "COMPLETED"
       THEN /\ localData' = localData \cup {<<"output.tar.gz">>, <<"topic-terms.csv">>, <<"doc-topics.csv">>}
            /\ topic_terms_csv' = archive.terms
            /\ doc_topics_csv' = archive.docs
            /\ JoinTables
       ELSE UNCHANGED <<localData, tables>>
  /\ pc' = "examples"
  /\ UNCHANGED <<world, localRaw, waitState, requests, samplerRuns, err>>
  /\ UNCHANGED <<sample, article_names, art, docname, predictor, result, dict>>

\* the examples cell asking the service again instead of reading the stored status
ExamplesCellRepoll ==
  /\ pc = "examples"
  /\ IF jobStatus = "COMPLETED"
       THEN IF results = <<>>
              THEN /\ Halt("ValueError")
                   /\ UNCHANGED <<sample, docname, localData>>
              ELSE \E r \in DOMAIN results :
                     /\ sample' = "DataFrame"
                     /\ docname' = results[r].docname
                     /\ localData' = localData \cup
                          {basename(k) : k \in {x \in bucket :
                              StartsWith(x, s3_path_join(<<RawPrefix, docname'>>))}}
                     /\ pc' = "model"
                     /\ err' = NoError
       ELSE /\ pc' = "model"
            /\ err' = NoError
            /\ UNCHANGED <<sample, docname, localData>>
  /\ UNCHANGED <<world, localRaw, tables, waitState, history>>
  /\ UNCHANGED <<article_names, art, JobStatus, predictor, result, dict>>

\* cell 2e4f4ddb: sample = results.sample(), and the drawn document fetched
ExamplesCell ==
  /\ pc = "examples"
  /\ IF JobStatus = "COMPLETED"
       THEN IF results = <<>>
              THEN /\ Halt("ValueError")
                   /\ UNCHANGED <<sample, docname, localData>>
              ELSE \E r \in DOMAIN results :
                     /\ sample' = "DataFrame"
                     /\ docname' = results[r].docname
                     /\ localData' = localData \cup
                          {basename(k) : k \in {x \in bucket :
                              StartsWith(x, s3_path_join(<<RawPrefix, docname'>>))}}
                     /\ pc' = "model"
                     /\ err' = NoError
       ELSE /\ pc' = "model"
            /\ err' = NoError
            /\ UNCHANGED <<sample, docname, localData>>
  /\ UNCHANGED <<world, localRaw, tables, waitState, history>>
  /\ UNCHANGED <<article_names, art, JobStatus, predictor, result, dict>>

\* cell 785636a6: the HuggingFaceModel object
ModelCell ==
  /\ pc = "model"
  /\ pc' = "deploy"
  /\ UNCHANGED <<world, files, tables, kernel, waitState, history, err>>

\* cell 9d918044: huggingface_model.deploy(..., wait=True)
DeployCell ==
  /\ pc = "deploy"
  /\ endpoint' = "InService"
  /\ predictor' = "bound"
  /\ pc' = "select"
  /\ UNCHANGED <<listing, profile, bucket, jobStatus, jobCorpus, archive, pending>>
  /\ UNCHANGED <<files, tables, waitState, history, err>>
  /\ UNCHANGED <<sample, article_names, art, JobStatus, docname, result, dict>>

\* cell f88eb3e2, line 315: result = None
SelectBegin ==
  /\ pc = "select"
  /\ result' = NoResult
  /\ pc' = "select_loop"
  /\ UNCHANGED <<world, files, tables, waitState, history, err>>
  /\ UNCHANGED <<sample, article_names, art, JobStatus, docname, predictor, dict>>

\* cell f88eb3e2, lines 316-325: one iteration of the loop, and the exit after a match
SelectIter ==
  /\ pc = "select_loop"
  /\ IF sample # "random.sample"
       THEN /\ Halt("TypeError")
            /\ UNCHANGED <<art, result, dict>>
       ELSE \E drawn \in random_sample(article_names, 1) :
              /\ art' = drawn[1]
              /\ IF art' \notin localRaw
                   THEN /\ Halt("FileNotFoundError")
                        /\ UNCHANGED <<result, dict>>
                   ELSE /\ result' = re_search(Flatten(DocText(profile, art')))
                        /\ err' = NoError
                        /\ IF result'.kind = "None"
                             THEN /\ pc' = "select_loop"
                                  /\ UNCHANGED dict
                             ELSE /\ dict' = [bound |-> TRUE, inputs |-> result'.group]
                                  /\ pc' = "predict"
  /\ UNCHANGED <<world, files, tables, waitState, history>>
  /\ UNCHANGED <<sample, article_names, JobStatus, docname, predictor>>

Summary == [kind |-> "summary", group |-> <<>>]

\* cell 2c0b51c0, line 335: predictor.predict_async(data=dict)
PredictSubmit ==
  /\ pc = "predict"
  /\ IF predictor = "bound" /\ endpoint = "InService" /\ dict.bound
       THEN /\ requests' = requests + 1
            /\ bucket' = bucket \cup {AsyncInputKey}
            /\ pending' = TRUE
            /\ attempts' = 0
            /\ clock' = 0
            /\ pc' = "wait"
            /\ err' = NoError
       ELSE /\ Halt("ClientError")
            /\ UNCHANGED <<requests, bucket, pending, attempts, clock>>
  /\ UNCHANGED <<listing, profile, jobStatus, jobCorpus, archive, endpoint>>
  /\ UNCHANGED <<files, tables, kernel, describeCalls, samplerRuns>>

\* the endpoint: the generated text written under the output path
InferenceDone ==
  /\ Quiet
  /\ pending
  /\ endpoint = "InService"
  /\ bucket' = bucket \cup {TldrKey}
  /\ pending' = FALSE
  /\ UNCHANGED <<listing, profile, jobStatus, jobCorpus, archive, endpoint>>
  /\ UNCHANGED <<files, tables, kernel, waitState, history, pc, err>>

\* a wait that gives up one attempt late
WaitAttemptOffByOne ==
  /\ pc = "wait"
  /\ attempts' = attempts + 1
  /\ IF TldrKey \in bucket
       THEN /\ result' = Summary
            /\ pc' = "teardown"
            /\ UNCHANGED <<clock, err>>
     ELSE IF attempts' > max_attempts
       THEN /\ Halt("PollingTimeoutError")
            /\ UNCHANGED <<clock, result>>
     ELSE /\ clock' = clock + delay
          /\ UNCHANGED <<pc, err, result>>
  /\ UNCHANGED <<world, files, tables, history>>
  /\ UNCHANGED <<sample, article_names, art, JobStatus, docname, predictor, dict>>

\* cell 2c0b51c0, lines 337-338: one attempt of get_result(WaiterConfig(24, 15))
WaitAttempt ==
  /\ pc = "wait"
  /\ attempts' = attempts + 1
  /\ IF TldrKey \in bucket
       THEN /\ result' = Summary
            /\ pc' = "teardown"
            /\ UNCHANGED <<clock, err>>
     ELSE IF attempts' >= max_attempts
       THEN /\ Halt("PollingTimeoutError")
            /\ UNCHANGED <<clock, result>>
     ELSE /\ clock' = clock + delay
          /\ UNCHANGED <<pc, err, result>>
  /\ UNCHANGED <<world, files, tables, history>>
  /\ UNCHANGED <<sample, article_names, art, JobStatus, docname, predictor, dict>>

\* bucket.objects.filter(Prefix=...).delete(): the keys that stay
delete_objects(keys, prefix) == {k \in keys : ~StartsWith(k, prefix)}

\* an endpoint deletion whose failure is swallowed
TeardownEndpointIgnoreError ==
  /\ pc = "teardown"
  /\ IF predictor = "bound" /\ endpoint = "InService"
       THEN /\ endpoint' = "deleted"
            /\ pending' = FALSE
       ELSE UNCHANGED <<endpoint, pending>>
  /\ pc' = "teardown_s3"
  /\ err' = NoError
  /\ UNCHANGED <<listing, profile, bucket, jobStatus, jobCorpus, archive>>
  /\ UNCHANGED <<files, tables, kernel, waitState, history>>

\* cell 018ed5ce, line 357: predictor.delete_endpoint()
TeardownEndpoint ==
  /\ pc = "teardown"
  /\ IF predictor = "unbound"
       THEN /\ Halt("NameError")
            /\ UNCHANGED <<endpoint, pending>>
     ELSE IF endpoint # "InService"
       THEN /\ Halt("ClientError")
            /\ UNCHANGED <<endpoint, pending>>
     ELSE /\ endpoint' = "deleted"
          /\ pending' = FALSE
          /\ pc' = "teardown_s3"
          /\ err' = NoError
  /\ UNCHANGED <<listing, profile, bucket, jobStatus, jobCorpus, archive>>
  /\ UNCHANGED <<files, tables, kernel, waitState, history>>

\* cell 018ed5ce, lines 360-361: bucket.objects.filter(Prefix="sci-docs").delete()
TeardownStorage ==
  /\ pc = "teardown_s3"
  /\ bucket' = delete_objects(bucket, delete_prefix)
  /\ pc' = "teardown_rm"
  /\ UNCHANGED <<listing, profile, jobStatus, jobCorpus, archive, endpoint, pending>>
  /\ UNCHANGED <<files, tables, kernel, waitState, history, err>>

\* cell 018ed5ce, line 362: rm -rf data
TeardownLocal ==
  /\ pc = "teardown_rm"
  /\ localRaw' = {}
  /\ localData' = {}
  /\ pc' = "done"
  /\ UNCHANGED <<world, tables, kernel, waitState, history, err>>

CellBoundary ==
  {"sampler", "look", "submit", "status", "examples", "model", "deploy", "select",
   "predict", "halted", "done"}

\* the clean-up cell run out of turn: after a halt, early, or once more
JumpToTeardown ==
  /\ pc \in CellBoundary
  /\ pc' = "teardown"
  /\ err' = NoError
  /\ UNCHANGED <<world, files, tables, kernel, waitState, history>>

Next ==
  \/ Imports
  \/ Sampler
  \/ LookCell
  \/ SubmitCell
  \/ JobStart
  \/ JobComplete
  \/ JobFail
  \/ StatusCell
  \/ ExamplesCell
  \/ ModelCell
  \/ DeployCell
  \/ SelectBegin
  \/ SelectIter
  \/ PredictSubmit
  \/ InferenceDone
  \/ WaitAttempt
  \/ TeardownEndpoint
  \/ TeardownStorage
  \/ TeardownLocal
  \/ JumpToTeardown

Spec == Init /\ [][Next]_vars

\* ------------------------------------------------ the sampler cell, run and rerun
InitSampler == InitWorld(0..MaxListing, {"none"}) /\ InitKernel /\ NoCsv

NextSampler ==
  \/ Imports
  \/ Sampler
  \/ LookCell

SpecSampler == InitSampler /\ [][NextSampler]_vars

NextResample ==
  \/ Imports
  \/ Sampler
  \/ RerunSampler

SpecResample == InitSampler /\ [][NextResample]_vars

\* ------------------------------------------------ the result joiner on its own
InitJoin ==
  /\ listing = <<>>
  /\ profile = "none"
  /\ bucket = Foreign
  /\ jobStatus = "COMPLETED"
  /\ jobCorpus = {}
  /\ archive = NoArchive
  /\ endpoint = "none"
  /\ pending = FALSE
  /\ InitKernel
  /\ topic_terms_csv \in TermTables
  /\ doc_topics_csv \in DocTables

\* lines 198-207 on the two files as they are
ReadAndJoin ==
  /\ pc = "imports"
  /\ UNCHANGED <<topic_terms_csv, doc_topics_csv>>
  /\ JoinTables
  /\ pc' = "joined"
  /\ UNCHANGED <<world, files, kernel, waitState, history, err>>

NextJoin == ReadAndJoin

SpecJoin == InitJoin /\ [][NextJoin]_vars

\* --------------------------------------------------------------- properties
TopicRowsOf(t) == {i \in DOMAIN topic_terms_csv : topic_terms_csv[i].topic = t}

\* str is the terms of topic t's rows, each row once, in an order of non-increasing
\* weight, with Sep between consecutive terms
InWeightOrder(str, t) ==
  LET idx == TopicRowsOf(t)
      k == Cardinality(idx)
  IN /\ Len(str) = 2 * k - 1
     /\ \E f \in [1..k -> idx] :
          /\ \A a, b \in 1..k : a # b => f[a] # f[b]
          /\ \A a \in 1..(k - 1) :
               topic_terms_csv[f[a]].weight >= topic_terms_csv[f[a + 1]].weight
          /\ \A a \in 1..k : str[2 * a - 1] = topic_terms_csv[f[a]].term
          /\ \A a \in 1..(k - 1) : str[2 * a] = Sep

\* C1: after the term table is aggregated, every distinct topic of the table has
\* exactly one row, no other topic has a row, and the row's string is that topic's
\* terms, one per input row, joined by ", " in non-increasing weight order.
C1_TermAggregation ==
  pc = "joined" =>
    /\ \A i \in DOMAIN topic_terms_csv :
         Cardinality({g \in DOMAIN topics : topics[g].topic = topic_terms_csv[i].topic}) = 1
    /\ \A g \in DOMAIN topics :
         /\ TopicRowsOf(topics[g].topic) # {}
         /\ InWeightOrder(topics[g].term, topics[g].topic)

\* the scenario of the specification, the rows given lightest first
C1_Witness ==
  /\ pc = "joined"
  /\ topic_terms_csv = << [topic |-> 1, weight |-> 5, term |-> "cell"],
                          [topic |-> 1, weight |-> 9, term |-> "gene"] >>
  /\ doc_topics_csv = << [docname |-> File(1), topic |-> 1, proportion |-> 8] >>
  /\ topics = << [topic |-> 1, term |-> <<"gene", ", ", "cell">>] >>
  /\ results = << [docname |-> File(1), topic |-> 1, proportion |-> 8,
                   term |-> <<"gene", ", ", "cell">>] >>

Count(seq, r) == Cardinality({i \in DOMAIN seq : seq[i] = r})

DocPart(row) == [docname |-> row.docname, topic |-> row.topic, proportion |-> row.proportion]

\* C2: the joined result has as many rows as the document table and the same
\* document-topic rows, each as often as the table holds it; each row carries the
\* term string of its topic, and NaN when the term table has no row of that topic.
C2_LeftJoin ==
  pc = "joined" =>
    /\ Len(results) = Len(doc_topics_csv)
    /\ \A r \in DocRows :
         Count([i \in DOMAIN results |-> DocPart(results[i])], r) = Count(doc_topics_csv, r)
    /\ \A i \in DOMAIN results :
         IF TopicRowsOf(results[i].topic) = {}
           THEN results[i].term = NaN
           ELSE \E g \in DOMAIN topics :
                  /\ topics[g].topic = results[i].topic
                  /\ topics[g].term = results[i].term

C2_Witness ==
  /\ pc = "joined"
  /\ Len(doc_topics_csv) = 2
  /\ Len(results) = 2
  /\ Len(topic_terms_csv) = 2
  /\ \E i \in DOMAIN results : results[i].term = NaN
  /\ \E i \in DOMAIN results : results[i].term # NaN

InsufficientData == {"ValueError", "KeyError"}

ExactlyOnce(names, keys) ==
  /\ Len(names) = Len(keys)
  /\ \A i \in DOMAIN keys :
       Cardinality({a \in DOMAIN names : names[a] = basename(keys[i])}) = 1

C3_Step ==
  samplerRuns' # samplerRuns =>
    /\ Len(listing) = SampleCount =>
         /\ err' = NoError
         /\ pc' = "look"
         /\ ExactlyOnce(article_names', listing)
    /\ Len(listing) < SampleCount =>
         /\ err' \in InsufficientData
         /\ pc' = "halted"
         /\ UNCHANGED <<article_names, localRaw, localData, bucket>>

\* C3: a run of the sampler cell on a listing of exactly SampleCount items succeeds
\* and article_names holds every listed item exactly once; on a shorter listing it
\* halts with an error before anything is downloaded or uploaded.
C3_SamplerBoundary == [][C3_Step]_vars

C3_Witness ==
  /\ Len(listing) = SampleCount
  /\ samplerRuns = 1
  /\ pc = "look"
  /\ Len(article_names) = SampleCount
  /\ Cardinality(StagedNames) = SampleCount

Retrieved == <<"output.tar.gz">> \in localData \/ topics # <<>> \/ results # <<>>
Displayed == sample = "DataFrame" \/ docname # <<>>

C4_Step ==
  /\ describeCalls' <= 1
  /\ describeCalls' # describeCalls => pc = "status"
  /\ pc = "examples" => JobStatus' = JobStatus
  /\ Retrieved' => JobStatus' = "COMPLETED"
  /\ Displayed' => JobStatus' = "COMPLETED"
  /\ (describeCalls' # describeCalls /\ JobStatus' # "COMPLETED") =>
       /\ pc' = "examples"
       /\ err' = NoError
       /\ UNCHANGED <<bucket, files, tables, sample, docname>>
  /\ (pc = "examples" /\ pc' \notin {"examples", "teardown"} /\ JobStatus # "COMPLETED") =>
       /\ pc' = "model"
       /\ err' = NoError
       /\ UNCHANGED <<bucket, files, tables, sample, docname>>

\* C4: the job status is queried once, by the status cell; the archive is retrieved,
\* the join computed and the example displayed only if that query returned COMPLETED;
\* on any other status both gated cells change nothing and raise no error, even when
\* the job has completed since.
C4_StatusGate == [][C4_Step]_vars

C4_Witness ==
  /\ pc = "model"
  /\ JobStatus = "IN_PROGRESS"
  /\ jobStatus = "COMPLETED"
  /\ ArchiveKey \in bucket
  /\ describeCalls = 1
  /\ localData = {}
  /\ results = <<>>
  /\ err = NoError

C5_Step ==
  /\ requests' <= 1
  /\ requests' # requests => pc = "predict"
  /\ pc' = "wait" => requests' = 1 /\ attempts' < max_attempts /\ clock' = attempts' * delay
  /\ attempts' <= max_attempts
  /\ attempts' # attempts /\ pc = "wait" =>
       /\ attempts' = attempts + 1
       /\ IF TldrKey \in bucket
            THEN result' = Summary /\ pc' = "teardown" /\ clock' = clock
          ELSE IF attempts' = max_attempts
            THEN err' = "PollingTimeoutError" /\ pc' = "halted" /\ clock' = clock
          ELSE pc' = "wait" /\ clock' = clock + delay
  /\ err' = "PollingTimeoutError" => attempts' = max_attempts /\ result' # Summary
  /\ pc # "wait" /\ requests = 1 => UNCHANGED <<requests, attempts, clock>>

\* C5: one prediction request per run; the wait makes at most max_attempts attempts,
\* delay apart, returns the text at the first attempt that finds it, and otherwise
\* halts with a timeout at attempt max_attempts; once the wait is over there is no
\* further request and no further attempt.
C5_BoundedWait == [][C5_Step]_vars

C5_Witness ==
  /\ pc = "halted"
  /\ err = "PollingTimeoutError"
  /\ attempts = max_attempts
  /\ clock = (max_attempts - 1) * delay
  /\ requests = 1
  /\ TldrKey \notin bucket

\* C6: the selection loop is left only by a draw that matches, the input then being
\* the captured span of the drawn article, at most MaxCapture characters long.
C6_LoopExit ==
  [][pc = "select_loop" /\ pc' # "select_loop" =>
       /\ result'.kind = "match"
       /\ \E a \in DOMAIN article_names : article_names[a] = art'
       /\ dict' = [bound |-> TRUE, inputs |-> result'.group]
       /\ TextLen(dict'.inputs) <= MaxCapture]_vars

Working(keys) == {k \in keys : UnderPrefix(k, s3_prefix)}

C7_Step ==
  /\ endpoint' # endpoint /\ endpoint' = "deleted" => pc = "teardown"
  /\ Working(bucket) \ bucket' # {} => pc = "teardown_s3" /\ endpoint = "deleted"
  /\ (localRaw \ localRaw') \cup (localData \ localData') # {} =>
       pc = "teardown_rm" /\ endpoint = "deleted" /\ Working(bucket) = {}
  /\ pc' = "done" /\ pc # "done" =>
       /\ pc = "teardown_rm"
       /\ endpoint' = "deleted"
       /\ Working(bucket') = {}
       /\ localRaw' = {}
       /\ localData' = {}
  /\ pc = "teardown" /\ pc' # "teardown" /\ endpoint # "InService" =>
       /\ pc' = "halted"
       /\ err' # NoError
       /\ UNCHANGED <<endpoint, bucket, localRaw, localData>>

C8_SampleStillFunction ==
  pc \in {"select", "select_loop"} => sample = "random.sample"

\* C9: after the sampler cell has run, the documents staged under the raw prefix
\* are exactly the documents named by article_names.
C9_StagedIsLatestSample ==
  pc = "look" => StagedNames = {article_names[i] : i \in DOMAIN article_names}

\* C10: no step deletes an object whose key is outside the working prefix s3_prefix.
C10_TeardownFrame ==
  [][\A k \in bucket : ~UnderPrefix(k, s3_prefix) => k \in bucket']_vars

====
